---- MODULE Spec2Model ----
(***************************************************************************)
(* Model of validate_bible_cho_yao.py: one run of main() over one input    *)
(* file.  JSON values are tagged records [k, v]; the kind k is compared    *)
(* first, so values of different kinds are never compared by payload.      *)
(* Strings are sequences of one-character strings.  Numbers are integers;  *)
(* booleans and floats are not modelled.  Opening the output file for      *)
(* writing is assumed to succeed (the directory exists and is writable).   *)
(***************************************************************************)
EXTENDS Integers, Sequences, FiniteSets, TLC

(* ---------------------------------------------------------------------- *)
(* JSON values as Python objects                                           *)
(* ---------------------------------------------------------------------- *)
Null == [k |-> "null", v |-> <<>>]
Num(n) == [k |-> "num", v |-> <<n>>]
Str(s) == [k |-> "str", v |-> s]
List(xs) == [k |-> "list", v |-> xs]
Obj(ps) == [k |-> "obj", v |-> ps]

EmptyStr == Str(<<>>)
EmptyList == List(<<>>)
EmptyObj == Obj(<<>>)

(* Field names used by main *)
K_id == <<"i","d">>
K_selection == <<"s","e","l","e","c","t","i","o","n">>
K_chapters == <<"c","h","a","p","t","e","r","s">>
K_scenarios == <<"s","c","e","n","a","r","i","o","s">>
K_meta == <<"m","e","t","a">>
K_maintainer == <<"m","a","i","n","t","a","i","n","e","r">>
K_contact == <<"c","o","n","t","a","c","t">>
K_docs == <<"d","o","c","s">>
K_safeguards == <<"s","a","f","e","g","u","a","r","d","s">>
K_anti_abuse == <<"a","n","t","i","_","a","b","u","s","e">>
K_pattern == <<"p","a","t","t","e","r","n">>

(* Results of an evaluation that may raise *)
Ok(x) == [exc |-> "none", val |-> x]
Raise(e) == [exc |-> e, val |-> Null]

(* key in dict *)
HasKey(o, key) == \E i \in 1..Len(o.v) : o.v[i][1] = key

(* dict.get(key, default) on a dict *)
Get(o, key, default) ==
  IF HasKey(o, key)
  THEN o.v[CHOOSE i \in 1..Len(o.v) : o.v[i][1] = key][2]
  ELSE default

(* x[key] in place of x.get(key, default) *)
PySubscript(x, key, default) ==
  IF x.k # "obj" THEN Raise("TypeError")
  ELSE IF HasKey(x, key) THEN Ok(Get(x, key, default))
  ELSE Raise("KeyError")

(* x.get(key, default): AttributeError unless x is a dict *)
PyGet(x, key, default) ==
  IF x.k = "obj" THEN Ok(Get(x, key, default)) ELSE Raise("AttributeError")

(* dict[key] = val : a new key goes last, an old key keeps its place *)
DictSet(ps, key, val) ==
  IF \E i \in 1..Len(ps) : ps[i][1] = key
  THEN [i \in 1..Len(ps) |-> IF ps[i][1] = key THEN <<key, val>> ELSE ps[i]]
  ELSE Append(ps, <<key, val>>)

(* isinstance(x, dict), isinstance(x, str) *)
IsDict(x) == x.k = "obj"
IsStr(x) == x.k = "str"

(* can len() / iteration be applied *)
Sized(x) == x.k \in {"list", "obj", "str"}

(* len(x) for a sized x *)
PyLen(x) == Len(x.v)

(* the items a for-loop over x visits: elements, keys or characters *)
Iter(x) ==
  IF x.k = "list" THEN x.v
  ELSE IF x.k = "obj" THEN [i \in 1..Len(x.v) |-> Str(x.v[i][1])]
  ELSE [i \in 1..Len(x.v) |-> Str(<<x.v[i]>>)]

(* hash(x) succeeds *)
Hashable(x) == x.k \in {"null", "num", "str"}

(* ---------------------------------------------------------------------- *)
(* JSON text: a sequence of tokens                                         *)
(* ---------------------------------------------------------------------- *)
P(c) == [k |-> "p", v |-> <<c>>]
Ws(nl, sp) == [k |-> "ws", v |-> <<nl, sp>>]
Word(s) == [k |-> "word", v |-> s]

IndentWidth == 2

RECURSIVE DumpValue(_, _)
RECURSIVE DumpItems(_, _, _)
RECURSIVE DumpMembers(_, _, _)

(* json.dump(obj, f, ensure_ascii=False, indent=2) at nesting level lv *)
DumpValue(x, lv) ==
  IF x.k \in {"null", "num", "str"} THEN <<x>>
  ELSE IF x.k = "list"
  THEN IF Len(x.v) = 0 THEN <<P("["), P("]")>>
       ELSE <<P("[")>> \o DumpItems(x.v, 1, lv + 1)
            \o <<Ws(1, IndentWidth * lv), P("]")>>
  ELSE IF Len(x.v) = 0 THEN <<P("{"), P("}")>>
       ELSE <<P("{")>> \o DumpMembers(x.v, 1, lv + 1)
            \o <<Ws(1, IndentWidth * lv), P("}")>>

DumpItems(xs, i, lv) ==
  IF i > Len(xs) THEN <<>>
  ELSE (IF i > 1 THEN <<P(",")>> ELSE <<>>)
       \o <<Ws(1, IndentWidth * lv)>> \o DumpValue(xs[i], lv)
       \o DumpItems(xs, i + 1, lv)

DumpMembers(ps, i, lv) ==
  IF i > Len(ps) THEN <<>>
  ELSE (IF i > 1 THEN <<P(",")>> ELSE <<>>)
       \o <<Ws(1, IndentWidth * lv), Str(ps[i][1]), P(":"), Ws(0, 1)>>
       \o DumpValue(ps[i][2], lv)
       \o DumpMembers(ps, i + 1, lv)

Dump(x) == DumpValue(x, 0)

(* Parsing: results are [ok, val, pos], pos the index after the value *)
PFail == [ok |-> FALSE, val |-> Null, pos |-> 0]
POk(x, p) == [ok |-> TRUE, val |-> x, pos |-> p]

RECURSIVE SkipWs(_, _)
SkipWs(t, i) ==
  IF i <= Len(t) /\ t[i].k = "ws" THEN SkipWs(t, i + 1) ELSE i

IsP(t, i, c) == i <= Len(t) /\ t[i].k = "p" /\ t[i].v[1] = c

RECURSIVE ParseValue(_, _)
RECURSIVE ParseItems(_, _, _)
RECURSIVE ParseMembers(_, _, _)

(* a value starting at token i (whitespace already skipped) *)
ParseValue(t, i) ==
  IF i > Len(t) THEN PFail
  ELSE IF t[i].k \in {"null", "num", "str"} THEN POk(t[i], i + 1)
  ELSE IF IsP(t, i, "[")
  THEN LET j == SkipWs(t, i + 1)
       IN IF IsP(t, j, "]") THEN POk(EmptyList, j + 1)
          ELSE ParseItems(t, j, <<>>)
  ELSE IF IsP(t, i, "{")
  THEN LET j == SkipWs(t, i + 1)
       IN IF IsP(t, j, "}") THEN POk(EmptyObj, j + 1)
          ELSE ParseMembers(t, j, <<>>)
  ELSE PFail

(* element at i, then "," or "]" *)
ParseItems(t, i, acc) ==
  LET r == ParseValue(t, i)
  IN IF ~r.ok THEN PFail
     ELSE LET j == SkipWs(t, r.pos)
          IN IF IsP(t, j, ",")
             THEN ParseItems(t, SkipWs(t, j + 1), Append(acc, r.val))
             ELSE IF IsP(t, j, "]") THEN POk(List(Append(acc, r.val)), j + 1)
             ELSE PFail

(* "key" : value at i, then "," or "}" *)
ParseMembers(t, i, acc) ==
  IF ~(i <= Len(t) /\ t[i].k = "str") THEN PFail
  ELSE LET c == SkipWs(t, i + 1)
       IN IF ~IsP(t, c, ":") THEN PFail
          ELSE LET r == ParseValue(t, SkipWs(t, c + 1))
               IN IF ~r.ok THEN PFail
                  ELSE LET j == SkipWs(t, r.pos)
                           acc2 == DictSet(acc, t[i].v, r.val)
                       IN IF IsP(t, j, ",")
                          THEN ParseMembers(t, SkipWs(t, j + 1), acc2)
                          ELSE IF IsP(t, j, "}") THEN POk(Obj(acc2), j + 1)
                          ELSE PFail

(* json.load on decoded text: the value, or JSONDecodeError *)
Loads(t) ==
  LET r == ParseValue(t, SkipWs(t, 1))
  IN IF r.ok /\ SkipWs(t, r.pos) = Len(t) + 1 THEN Ok(r.val)
     ELSE Raise("JSONDecodeError")

(* ---------------------------------------------------------------------- *)
(* String operations                                                       *)
(* ---------------------------------------------------------------------- *)
IsSpace(c) == c \in {" ", "\t", "\n", "\r"}

(* s[i:].startswith(sub), i counted from 1 *)
StartsAt(s, i, sub) ==
  /\ i + Len(sub) - 1 <= Len(s)
  /\ \A j \in 1..Len(sub) : s[i + j - 1] = sub[j]

(* sub in s, for strings *)
Contains(s, sub) == \E i \in 1..(Len(s) + 1) : StartsAt(s, i, sub)

RECURSIVE ReplaceFrom(_, _, _, _)
(* s.replace(old, new), scanning from index i; old is not empty *)
ReplaceFrom(s, i, old, new) ==
  IF i > Len(s) THEN <<>>
  ELSE IF StartsAt(s, i, old)
       THEN new \o ReplaceFrom(s, i + Len(old), old, new)
       ELSE <<s[i]>> \o ReplaceFrom(s, i + 1, old, new)

Replace(s, old, new) == ReplaceFrom(s, 1, old, new)

RECURSIVE LStrip(_)
LStrip(s) == IF s # <<>> /\ IsSpace(Head(s)) THEN LStrip(Tail(s)) ELSE s

RECURSIVE RStrip(_)
RStrip(s) ==
  IF s # <<>> /\ IsSpace(s[Len(s)]) THEN RStrip(SubSeq(s, 1, Len(s) - 1))
  ELSE s

(* s.strip() *)
Strip(s) == LStrip(RStrip(s))

RECURSIVE SplitFrom(_, _, _, _)
(* s.split(): the maximal runs of non-whitespace; cur is the open run *)
SplitFrom(s, i, cur, acc) ==
  IF i > Len(s) THEN (IF cur = <<>> THEN acc ELSE Append(acc, cur))
  ELSE IF IsSpace(s[i])
       THEN SplitFrom(s, i + 1, <<>>,
                      IF cur = <<>> THEN acc ELSE Append(acc, cur))
       ELSE SplitFrom(s, i + 1, Append(cur, s[i]), acc)

Split(s) == SplitFrom(s, 1, <<>>, <<>>)

(* needle in x, for a needle that is a string *)
PyIn(needle, x) ==
  IF x.k = "str" THEN Ok(Contains(x.v, needle))
  ELSE IF x.k = "list" THEN Ok(\E i \in 1..Len(x.v) : x.v[i] = Str(needle))
  ELSE IF x.k = "obj" THEN Ok(HasKey(x, needle))
  ELSE Raise("TypeError")

(* ---------------------------------------------------------------------- *)
(* The checks                                                              *)
(* ---------------------------------------------------------------------- *)
RECURSIVE CountElements(_, _, _)
(* Counter(ids): <<key, count>> pairs in order of first occurrence *)
CountElements(ids, i, c) ==
  IF i > Len(ids) THEN c
  ELSE LET hit == {j \in 1..Len(c) : c[j][1] = ids[i]}
       IN IF hit = {}
          THEN CountElements(ids, i + 1, Append(c, <<ids[i], 1>>))
          ELSE CountElements(ids, i + 1,
                 [j \in 1..Len(c) |->
                    IF j \in hit THEN <<c[j][1], c[j][2] + 1>> ELSE c[j]])

(* the first components of a sequence of pairs *)
Firsts(c) == [j \in 1..Len(c) |-> c[j][1]]

DupThreshold == 1

(* check_unique_ids(items, key): the duplicated ids, or the exception *)
check_unique_ids(items, key) ==
  IF ~Sized(items) THEN Raise("TypeError")
  ELSE LET its == Iter(items)
           sel == SelectSeq(its, LAMBDA it : IsDict(it) /\ HasKey(it, key))
           ids == [j \in 1..Len(sel) |-> Get(sel[j], key, Null)]
       IN IF \E j \in 1..Len(ids) : ~Hashable(ids[j])
          THEN Raise("TypeError")
          ELSE Ok(Firsts(SelectSeq(CountElements(ids, 1, <<>>),
                                   LAMBDA e : e[2] > DupThreshold)))

EXAMPLE_ORG == <<"e","x","a","m","p","l","e",".","o","r","g">>
REPLACE == <<"r","e","p","l","a","c","e">>

(* the contact compared with '' without strip() *)
IsPlaceholderNoStrip(contact) ==
  LET a == PyIn(EXAMPLE_ORG, contact)
      b == PyIn(REPLACE, contact)
  IN IF a.exc # "none" THEN a
     ELSE IF a.val THEN Ok(TRUE)
     ELSE IF b.exc # "none" THEN b
     ELSE IF b.val THEN Ok(TRUE)
     ELSE Ok(contact = EmptyStr)

(* line 60: is the contact a placeholder; or the exception *)
IsPlaceholder(contact) ==
  LET a == PyIn(EXAMPLE_ORG, contact)
      b == PyIn(REPLACE, contact)
  IN IF a.exc # "none" THEN a
     ELSE IF a.val THEN Ok(TRUE)
     ELSE IF b.exc # "none" THEN b
     ELSE IF b.val THEN Ok(TRUE)
     ELSE IF contact.k # "str" THEN Raise("AttributeError")
     ELSE Ok(Strip(contact.v) = <<>>)

(* lines 66-69: the (key, value) pairs of docs whose value has a space *)
DocIssues(docs) ==
  SelectSeq(docs.v, LAMBDA kv : IsStr(kv[2]) /\ Contains(kv[2].v, <<" ">>))

MaxTokens == 4

(* >= in place of > *)
IsNaturalLanguageAtLeast(p) == IsStr(p) /\ Len(Split(p.v)) >= MaxTokens

(* line 81: the pattern is flagged *)
IsNaturalLanguage(p) == IsStr(p) /\ Len(Split(p.v)) > MaxTokens

(* lines 78-82: the (id, pattern) pairs, or the exception *)
NlPatterns(anti) ==
  IF ~Sized(anti) THEN Raise("TypeError")
  ELSE LET its == Iter(anti)
       IN IF \E j \in 1..Len(its) : ~IsDict(its[j])
          THEN Raise("AttributeError")
          ELSE LET hit == SelectSeq(its, LAMBDA a :
                            IsNaturalLanguage(Get(a, K_pattern, EmptyStr)))
               IN Ok([j \in 1..Len(hit) |->
                       <<Get(hit[j], K_id, Null), Get(hit[j], K_pattern, EmptyStr)>>])

DOT_JSON == <<".","j","s","o","n">>
DOT_CLEANED_JSON == <<".","c","l","e","a","n","e","d",".","j","s","o","n">>

(* line 90: the output path *)
DeriveOutputPath(path) == Replace(path, DOT_JSON, <<>>) \o DOT_CLEANED_JSON

(* ---------------------------------------------------------------------- *)
(* The run of main()                                                       *)
(* ---------------------------------------------------------------------- *)
VARIABLES
  argv,         \* sys.argv
  file,         \* the file at sys.argv[1]: [st, text]
  pc,           \* the position of main
  data,         \* the loaded document
  chapters,     \* line 43
  scenarios,    \* line 44
  dup_ch,       \* line 47
  dup_sc,       \* line 48
  doc_issues,   \* line 66
  nl_patterns,  \* line 78
  out,          \* line 90
  stdout,       \* the lines printed, [tag, info]
  fs,           \* the files written, [path, text], in order
  status,       \* <<>> while running, <<n>> after exit with status n
  exc           \* the uncaught exception, "none" if there is none

vars == <<argv, file, pc, data, chapters, scenarios, dup_ch, dup_sc,
          doc_issues, nl_patterns, out, stdout, fs, status, exc>>

locals == <<chapters, scenarios, dup_ch, dup_sc, doc_issues, nl_patterns, out>>

(* a local variable not assigned yet *)
Unset == [k |-> "unset", v |-> <<>>]

Line(tag, info) == [tag |-> tag, info |-> info]

(* sys.exit(n) *)
Exit(n) == /\ status' = <<n>> /\ pc' = "done"

(* an exception no handler catches: traceback on stderr, exit status 1 *)
Uncaught(e) == /\ exc' = e /\ status' = <<1>> /\ pc' = "done"

(* lines 17-19: open, decode and parse the file at path *)
load_json(path) ==
  IF file.st = "missing" THEN Raise("FileNotFoundError")
  ELSE IF file.st = "denied" THEN Raise("PermissionError")
  ELSE IF file.st = "badutf8" THEN Raise("UnicodeDecodeError")
  ELSE Loads(file.text)

(* lines 21-23: the file system after writing obj to path *)
write_json(obj, path) == Append(fs, [path |-> path, text |-> Dump(obj)])

(* the usage error leaves with the status of the parse error *)
CheckArgsStatus2 ==
  /\ pc = "start"
  /\ IF Len(argv) < 2
     THEN /\ stdout' = Append(stdout, Line("usage", <<>>))
          /\ Exit(2)
     ELSE /\ pc' = "load"
          /\ UNCHANGED <<stdout, status>>
  /\ UNCHANGED <<argv, file, data, locals, fs, exc>>

(* lines 32-35 *)
CheckArgs ==
  /\ pc = "start"
  /\ IF Len(argv) < 2
     THEN /\ stdout' = Append(stdout, Line("usage", <<>>))
          /\ Exit(1)
     ELSE /\ pc' = "load"
          /\ UNCHANGED <<stdout, status>>
  /\ UNCHANGED <<argv, file, data, locals, fs, exc>>

(* except json.JSONDecodeError in place of except Exception *)
LoadJsonCatchesDecodeOnly ==
  /\ pc = "load"
  /\ LET r == load_json(argv[2])
     IN IF r.exc = "JSONDecodeError"
        THEN /\ stdout' = Append(stdout, Line("parse_fail", r.exc))
             /\ Exit(2)
             /\ UNCHANGED <<data, exc>>
        ELSE IF r.exc # "none"
        THEN /\ Uncaught(r.exc)
             /\ UNCHANGED <<data, stdout>>
        ELSE /\ data' = r.val
             /\ pc' = "ack"
             /\ UNCHANGED <<stdout, status, exc>>
  /\ UNCHANGED <<argv, file, locals, fs>>

(* lines 36-40 *)
LoadJson ==
  /\ pc = "load"
  /\ LET r == load_json(argv[2])
     IN IF r.exc # "none"
        THEN /\ stdout' = Append(stdout, Line("parse_fail", r.exc))
             /\ Exit(2)
             /\ UNCHANGED data
        ELSE /\ data' = r.val
             /\ pc' = "ack"
             /\ UNCHANGED <<stdout, status>>
  /\ UNCHANGED <<argv, file, locals, fs, exc>>

(* line 41 *)
Ack ==
  /\ pc = "ack"
  /\ stdout' = Append(stdout, Line("parse_ok", <<>>))
  /\ pc' = "summary"
  /\ UNCHANGED <<argv, file, data, locals, fs, status, exc>>

(* lines 43-44: chapters and scenarios, or the exception *)
Collections(d) ==
  LET sel == PyGet(d, K_selection, EmptyObj)
  IN IF sel.exc # "none" THEN sel
     ELSE LET ch == PyGet(sel.val, K_chapters, EmptyList)
              sc == PyGet(d, K_scenarios, EmptyList)
          IN IF ch.exc # "none" THEN ch
             ELSE IF sc.exc # "none" THEN sc
             ELSE IF ~Sized(ch.val) \/ ~Sized(sc.val) THEN Raise("TypeError")
             ELSE Ok(<<ch.val, sc.val>>)

(* lines 43-45 *)
Summary ==
  /\ pc = "summary"
  /\ LET r == Collections(data)
     IN IF r.exc # "none"
        THEN /\ Uncaught(r.exc)
             /\ UNCHANGED <<chapters, scenarios, stdout>>
        ELSE /\ chapters' = r.val[1]
             /\ scenarios' = r.val[2]
             /\ stdout' = Append(stdout,
                    Line("summary", <<PyLen(r.val[1]), PyLen(r.val[2])>>))
             /\ pc' = "unique"
             /\ UNCHANGED <<status, exc>>
  /\ UNCHANGED <<argv, file, data, dup_ch, dup_sc, doc_issues, nl_patterns,
                 out, fs>>

(* lines 47-48 *)
UniqueIds ==
  /\ pc = "unique"
  /\ LET a == check_unique_ids(chapters, K_id)
         b == check_unique_ids(scenarios, K_id)
     IN IF a.exc # "none"
        THEN Uncaught(a.exc) /\ UNCHANGED <<dup_ch, dup_sc>>
        ELSE IF b.exc # "none"
        THEN Uncaught(b.exc) /\ UNCHANGED <<dup_ch, dup_sc>>
        ELSE /\ dup_ch' = a.val
             /\ dup_sc' = b.val
             /\ pc' = "report_ch"
             /\ UNCHANGED <<status, exc>>
  /\ UNCHANGED <<argv, file, data, chapters, scenarios, doc_issues,
                 nl_patterns, out, stdout, fs>>

(* a duplicated chapter id ends the run *)
ReportChaptersExits ==
  /\ pc = "report_ch"
  /\ stdout' = Append(stdout,
        Line(IF dup_ch # <<>> THEN "ch_dup" ELSE "ch_ok", dup_ch))
  /\ IF dup_ch # <<>> THEN Exit(3)
     ELSE pc' = "report_sc" /\ UNCHANGED status
  /\ UNCHANGED <<argv, file, data, locals, fs, exc>>

(* lines 49-52 *)
ReportChapters ==
  /\ pc = "report_ch"
  /\ stdout' = Append(stdout,
        Line(IF dup_ch # <<>> THEN "ch_dup" ELSE "ch_ok", dup_ch))
  /\ pc' = "report_sc"
  /\ UNCHANGED <<argv, file, data, locals, fs, status, exc>>

(* lines 53-56 *)
ReportScenarios ==
  /\ pc = "report_sc"
  /\ stdout' = Append(stdout,
        Line(IF dup_sc # <<>> THEN "sc_dup" ELSE "sc_ok", dup_sc))
  /\ pc' = "maint"
  /\ UNCHANGED <<argv, file, data, locals, fs, status, exc>>

(* lines 58-59: the contact, or the exception *)
Contact(d) ==
  LET meta == PyGet(d, K_meta, EmptyObj)
  IN IF meta.exc # "none" THEN meta
     ELSE LET maint == PyGet(meta.val, K_maintainer, EmptyObj)
          IN IF maint.exc # "none" THEN maint
             ELSE PyGet(maint.val, K_contact, EmptyStr)

(* lines 58-63 *)
Maintainer ==
  /\ pc = "maint"
  /\ LET c == Contact(data)
         ph == IF c.exc # "none" THEN c ELSE IsPlaceholder(c.val)
     IN IF ph.exc # "none"
        THEN Uncaught(ph.exc) /\ UNCHANGED stdout
        ELSE /\ stdout' = Append(stdout,
                   Line(IF ph.val THEN "maint_placeholder" ELSE "maint_set",
                        c.val))
             /\ pc' = "docs"
             /\ UNCHANGED <<status, exc>>
  /\ UNCHANGED <<argv, file, data, locals, fs>>

(* one printed line per pair *)
ItemLines(tag, items) == [i \in 1..Len(items) |-> Line(tag, items[i])]

(* lines 65-75 *)
Docs ==
  /\ pc = "docs"
  /\ LET docs == PyGet(data, K_docs, EmptyObj)
     IN IF docs.exc # "none"
        THEN Uncaught(docs.exc) /\ UNCHANGED <<doc_issues, stdout>>
        ELSE IF ~IsDict(docs.val)
        THEN Uncaught("AttributeError") /\ UNCHANGED <<doc_issues, stdout>>
        ELSE /\ doc_issues' = DocIssues(docs.val)
             /\ stdout' = IF doc_issues' # <<>>
                  THEN Append(stdout, Line("docs_warn", <<>>))
                       \o ItemLines("docs_item", doc_issues')
                  ELSE Append(stdout, Line("docs_ok", <<>>))
             /\ pc' = "anti"
             /\ UNCHANGED <<status, exc>>
  /\ UNCHANGED <<argv, file, data, chapters, scenarios, dup_ch, dup_sc,
                 nl_patterns, out, fs>>

(* line 77: safeguards.anti_abuse, or the exception *)
AntiAbuse(d) ==
  LET sg == PyGet(d, K_safeguards, EmptyObj)
  IN IF sg.exc # "none" THEN sg ELSE PyGet(sg.val, K_anti_abuse, EmptyList)

(* lines 77-88 *)
Anti ==
  /\ pc = "anti"
  /\ LET anti == AntiAbuse(data)
         r == IF anti.exc # "none" THEN anti ELSE NlPatterns(anti.val)
     IN IF r.exc # "none"
        THEN Uncaught(r.exc) /\ UNCHANGED <<nl_patterns, stdout>>
        ELSE /\ nl_patterns' = r.val
             /\ stdout' = IF r.val # <<>>
                  THEN Append(stdout, Line("anti_warn", <<>>))
                       \o ItemLines("anti_item", r.val)
                  ELSE Append(stdout, Line("anti_ok", <<>>))
             /\ pc' = "write"
             /\ UNCHANGED <<status, exc>>
  /\ UNCHANGED <<argv, file, data, chapters, scenarios, dup_ch, dup_sc,
                 doc_issues, out, fs>>

(* lines 90-91 *)
Write ==
  /\ pc = "write"
  /\ out' = DeriveOutputPath(argv[2])
  /\ fs' = write_json(data, out')
  /\ pc' = "confirm"
  /\ UNCHANGED <<argv, file, data, chapters, scenarios, dup_ch, dup_sc,
                 doc_issues, nl_patterns, stdout, status, exc>>

(* line 92 *)
Confirm ==
  /\ pc = "confirm"
  /\ stdout' = Append(stdout, Line("written", out))
  /\ pc' = "suggest"
  /\ UNCHANGED <<argv, file, data, locals, fs, status, exc>>

(* lines 93-96, then main returns: exit status 0 *)
Suggest ==
  /\ pc = "suggest"
  /\ stdout' = stdout \o <<Line("suggest_head", <<>>), Line("suggest_1", <<>>),
                           Line("suggest_2", <<>>), Line("suggest_3", <<>>)>>
  /\ Exit(0)
  /\ UNCHANGED <<argv, file, data, locals, fs, exc>>

Next ==
  \/ CheckArgs
  \/ LoadJson
  \/ Ack
  \/ Summary
  \/ UniqueIds
  \/ ReportChapters
  \/ ReportScenarios
  \/ Maintainer
  \/ Docs
  \/ Anti
  \/ Write
  \/ Confirm
  \/ Suggest

(* ---------------------------------------------------------------------- *)
(* Inputs                                                                  *)
(* ---------------------------------------------------------------------- *)
PROG == <<"v","a","l","i","d","a","t","e",".","p","y">>

MissingFile == [st |-> "missing", text |-> <<>>]
DeniedFile == [st |-> "denied", text |-> <<>>]
BadUtf8File == [st |-> "badutf8", text |-> <<>>]
TextFile(t) == [st |-> "text", text |-> t]

(* the text "{not json", and texts cut short or with a stray token *)
BadTexts ==
  { <<P("{"), Word(<<"n","o","t">>), Ws(0, 1), Word(<<"j","s","o","n">>)>>,
    <<P("["), Num(1), P(",")>>,
    <<P("{"), Str(K_id), P(":"), Num(1), P("}"), P("}")>>,
    <<>> }

(* files from which load_json raises *)
ErrFiles ==
  {MissingFile, DeniedFile, BadUtf8File} \cup {TextFile(t) : t \in BadTexts}

(* the same text without its whitespace *)
Compact(t) == SelectSeq(t, LAMBDA tok : tok.k # "ws")

(* an object from optional members: <<>> is absent, <<x>> is present *)
Member(key, opt) == IF opt = <<>> THEN <<>> ELSE << <<key, opt[1]>> >>

MkDoc(sel, sc, meta, docs, safe) ==
  Obj(Member(K_selection, sel) \o Member(K_scenarios, sc)
      \o Member(K_meta, meta) \o Member(K_docs, docs)
      \o Member(K_safeguards, safe))

One(key, x) == Obj(<< <<key, x>> >>)

A == Str(<<"a">>)
B == Str(<<"b">>)
Rec(id) == One(K_id, id)
NoId == One(<<"n","a","m","e">>, A)

SeqsUpTo(S, n) == UNION {[1..m -> S] : m \in 0..n}

RECURSIVE Concat(_)
Concat(ss) == IF ss = <<>> THEN <<>> ELSE Head(ss) \o Concat(Tail(ss))

(* the runs over the given paths and file contents *)
InitOver(paths, files) ==
  /\ \E a \in {<<PROG>>} \cup {<<PROG, p>> : p \in paths} :
       \E f \in files \cup ErrFiles :
         /\ Len(a) < 2 => f = MissingFile
         /\ argv = a
         /\ file = f
  /\ pc = "start"
  /\ data = Unset
  /\ chapters = Unset
  /\ scenarios = Unset
  /\ dup_ch = <<>>
  /\ dup_sc = <<>>
  /\ doc_issues = <<>>
  /\ nl_patterns = <<>>
  /\ out = <<>>
  /\ stdout = <<>>
  /\ fs = <<>>
  /\ status = <<>>
  /\ exc = "none"

(* --- documents of mixed shapes ---------------------------------------- *)
ChapterSamples ==
  { EmptyList,
    List(<<Rec(A), Rec(B)>>),
    List(<<Rec(B), Rec(A), A, NoId, Rec(B), Rec(A), Rec(A)>>),
    List(<<Rec(EmptyList)>>) }

SelectionOpts ==
  {<<>>, <<EmptyObj>>, <<Null>>}
  \cup {<<One(K_chapters, c)>> : c \in ChapterSamples}

ScenarioOpts ==
  {<<>>, <<List(<<Rec(Num(1)), Rec(Null), Rec(Num(1))>>)>>, <<Num(5)>>}

ContactSamples ==
  { EmptyStr, Str(<<"m","e","@","e","x","a","m","p","l","e",".","o","r","g">>), Str(<<"b","o","b","@","r","e","a","l",".","c","o","m">>), Null,
    List(<<Str(EXAMPLE_ORG)>>), EmptyList }

MetaOpts ==
  {<<>>, <<EmptyObj>>, <<One(K_maintainer, EmptyObj)>>, <<A>>}
  \cup {<<One(K_maintainer, One(K_contact, c))>> : c \in ContactSamples}

DocsOpts ==
  { <<>>,
    <<One(<<"g","u","i","d","e">>, Str(<<"d","o","c","s","/","f","i","l","e",".","m","d">>))>>,
    <<Obj(<< <<<<"g","u","i","d","e">>, Str(<<"m","y"," ","d","o","c","s","/","f","i","l","e"," ","1",".","m","d">>)>>, <<<<"n">>, Num(3)>>,
             <<<<"a","p","i">>, Str(<<"a","p","i",".","m","d">>)>>, <<<<"f","a","q">>, Str(<<" ","f","a","q">>)>> >>)>>,
    <<EmptyList>> }

AntiSamples ==
  { EmptyList,
    List(<<Obj(<< <<K_id, A>>, <<K_pattern, Str(<<"n","o"," ","s","p","a","m"," ","o","r"," ","s","c","a","m","s">>)>> >>)>>),
    List(<<Obj(<< <<K_id, A>>,
                  <<K_pattern, Str(<<"d","o"," ","n","o","t"," ","a","l","l","o","w"," ","s","p","a","m"," ","o","r"," ","s","c","a","m"," ","a","t","t","e","m","p","t","s">>)>> >>),
           Obj(<< <<K_id, B>>, <<K_pattern, Num(7)>> >>),
           Rec(B),
           One(K_pattern, Str(<<"a"," "," ","b","\t","c"," ","d"," ","e">>))>>),
    List(<<A>>) }

SafeguardOpts ==
  {<<>>, <<EmptyObj>>} \cup {<<One(K_anti_abuse, x)>> : x \in AntiSamples}

(* documents that are not objects *)
NonObjects == {EmptyList, List(<<Rec(A)>>), Num(3), A, Null}

MixedDocs ==
  {MkDoc(s, c, m, d, g) : s \in SelectionOpts, c \in ScenarioOpts,
                          m \in MetaOpts, d \in DocsOpts, g \in SafeguardOpts}
  \cup NonObjects

(* a text with a repeated key, and one not indented *)
OtherTexts ==
  { <<P("{"), Str(K_docs), P(":"), Null, P(","), Str(K_scenarios), P(":"),
      P("["), P("]"), P(","), Str(K_docs), P(":"), P("{"), P("}"), P("}"),
      Ws(1, 0)>>,
    Compact(Dump(MkDoc(<<One(K_chapters, List(<<Rec(A), Rec(A)>>))>>, <<>>,
                       <<>>, <<>>, <<>>))) }

MixedPaths == {<<"f","o","o",".","j","s","o","n">>, <<"f","o","o">>}

Init ==
  InitOver(MixedPaths,
           {TextFile(Dump(d)) : d \in MixedDocs}
           \cup {TextFile(t) : t \in OtherTexts})

Spec == Init /\ [][Next]_vars

(* --- every short sequence of chapter records --------------------------- *)
MaxRecords == 4

RecordElems == {Rec(A), Rec(B), NoId, A, Rec(EmptyList)}

IdsDocs ==
  {MkDoc(<<One(K_chapters, List(c))>>, <<>>, <<>>, <<>>, <<>>) :
     c \in SeqsUpTo(RecordElems, MaxRecords)}

InitIds == InitOver({<<"f","o","o",".","j","s","o","n">>}, {TextFile(Dump(d)) : d \in IdsDocs})

SpecIds == InitIds /\ [][Next]_vars

(* --- contacts built from the placeholder words and their pieces -------- *)
MaxContactSegs == 3

ContactSegs ==
  {EXAMPLE_ORG, <<"e","x","a","m","p","l","e">>, <<".","o","r","g">>, REPLACE, <<"R","e","p","l","a","c","e">>, <<" ">>, <<"a">>}

ContactDocs ==
  {MkDoc(<<>>, <<>>, <<One(K_maintainer, One(K_contact, Str(Concat(c))))>>,
         <<>>, <<>>) : c \in SeqsUpTo(ContactSegs, MaxContactSegs)}
  \cup {MkDoc(<<>>, <<>>, m, <<>>, <<>>) :
          m \in {<<>>, <<EmptyObj>>, <<One(K_maintainer, EmptyObj)>>,
                 <<One(K_maintainer, One(K_contact, Str(<<"\t","\n">>)))>>}}

InitContact ==
  InitOver({<<"f","o","o",".","j","s","o","n">>}, {TextFile(Dump(d)) : d \in ContactDocs})

SpecContact == InitContact /\ [][Next]_vars

(* --- every short pattern of words and blanks --------------------------- *)
MaxPatternLen == 9

PatternChars == {"a", " "}

(* the entry under test, then entries with a pattern that is not a string, *)
(* with no pattern, and with a five-word pattern but no id                 *)
AntiDocs ==
  {MkDoc(<<>>, <<>>, <<>>, <<>>,
         <<One(K_anti_abuse,
               List(<<Obj(i \o << <<K_pattern, Str(p)>> >>),
                      Obj(<< <<K_id, B>>, <<K_pattern, Num(7)>> >>),
                      Rec(B),
                      One(K_pattern, Str(<<"a"," ","a","\t","a"," "," ","a"," ","a">>))>>))>>) :
     i \in {<<>>, << <<K_id, A>> >>},
     p \in SeqsUpTo(PatternChars, MaxPatternLen)}

InitAnti == InitOver({<<"f","o","o",".","j","s","o","n">>}, {TextFile(Dump(d)) : d \in AntiDocs})

SpecAnti == InitAnti /\ [][Next]_vars

(* --- every short path of name pieces ----------------------------------- *)
MaxPathSegs == 3

PathSegs == {<<"a">>, DOT_JSON, <<"/">>, <<".">>}

RECURSIVE LastComponent(_)
LastComponent(p) ==
  IF \E i \in 1..Len(p) : p[i] = "/" THEN LastComponent(Tail(p)) ELSE p

(* paths that can name a regular file *)
FilePaths ==
  {p \in {Concat(c) : c \in SeqsUpTo(PathSegs, MaxPathSegs)} :
     LastComponent(p) \notin {<<>>, <<".">>, <<".",".">>}}

InitPaths ==
  InitOver(FilePaths, {TextFile(Dump(d)) : d \in {EmptyObj, EmptyList}})

SpecPaths == InitPaths /\ [][Next]_vars

(* ---------------------------------------------------------------------- *)
(* Properties                                                              *)
(* ---------------------------------------------------------------------- *)
Done == pc = "done"
HasArg == Len(argv) >= 2
Loaded == data.k # "unset"
HasTag(tag) == \E i \in 1..Len(stdout) : stdout[i].tag = tag
LastTag == IF stdout = <<>> THEN "" ELSE stdout[Len(stdout)].tag

(* the input is JSON text, by a successful parse *)
ValidInput == file.st = "text" /\ Loads(file.text).exc = "none"

(* the step that prints a line; "" for the lines listing a finding *)
StepOf(tag) ==
  CASE tag = "usage" -> "usage"
    [] tag = "parse_fail" -> "fail"
    [] tag = "parse_ok" -> "ack"
    [] tag = "summary" -> "summary"
    [] tag \in {"ch_ok", "ch_dup"} -> "chapters"
    [] tag \in {"sc_ok", "sc_dup"} -> "scenarios"
    [] tag \in {"maint_set", "maint_placeholder"} -> "maintainer"
    [] tag \in {"docs_ok", "docs_warn"} -> "docs"
    [] tag \in {"anti_ok", "anti_warn"} -> "anti"
    [] tag = "written" -> "confirm"
    [] tag = "suggest_head" -> "suggest"
    [] OTHER -> ""

(* the steps that have reported, in order *)
Steps ==
  LET all == [i \in 1..Len(stdout) |-> StepOf(stdout[i].tag)]
  IN SelectSeq(all, LAMBDA x : x # "")

FullReport ==
  <<"ack", "summary", "chapters", "scenarios", "maintainer", "docs", "anti",
    "confirm", "suggest">>

(* no check of steps 2-10 has run and nothing was written *)
NothingChecked ==
  /\ fs = <<>>
  /\ pc \in {"start", "load", "done"}
  /\ \A i \in 1..Len(stdout) : stdout[i].tag \in {"usage", "parse_fail"}
  /\ ~Loaded

(* --- the shape of section 3 of the specification ----------------------- *)
Scalar(x) == x.k \in {"null", "num", "str"}
(* o is a map without the key *)
Absent(o, key) == o.k = "obj" /\ ~HasKey(o, key)
(* the member of a map, null where there is none *)
Field(o, key) == IF o.k = "obj" /\ HasKey(o, key) THEN Get(o, key, Null) ELSE Null

(* a sequence whose records carry scalar ids *)
RecordsShaped(x) ==
  /\ x.k = "list"
  /\ \A i \in 1..Len(x.v) :
       (x.v[i].k = "obj" /\ HasKey(x.v[i], K_id)) => Scalar(Field(x.v[i], K_id))

SelectionShaped(x) ==
  x.k = "obj" /\ (Absent(x, K_chapters) \/ RecordsShaped(Field(x, K_chapters)))

MaintainerShaped(x) ==
  x.k = "obj" /\ (Absent(x, K_contact) \/ Field(x, K_contact).k = "str")

MetaShaped(x) ==
  x.k = "obj"
  /\ (Absent(x, K_maintainer) \/ MaintainerShaped(Field(x, K_maintainer)))

AntiShaped(x) == x.k = "list" /\ \A i \in 1..Len(x.v) : x.v[i].k = "obj"

SafeguardsShaped(x) ==
  x.k = "obj" /\ (Absent(x, K_anti_abuse) \/ AntiShaped(Field(x, K_anti_abuse)))

WellShaped(d) ==
  /\ d.k = "obj"
  /\ Absent(d, K_selection) \/ SelectionShaped(Field(d, K_selection))
  /\ Absent(d, K_scenarios) \/ RecordsShaped(Field(d, K_scenarios))
  /\ Absent(d, K_meta) \/ MetaShaped(Field(d, K_meta))
  /\ Absent(d, K_docs) \/ Field(d, K_docs).k = "obj"
  /\ Absent(d, K_safeguards) \/ SafeguardsShaped(Field(d, K_safeguards))

(* C1: every run on a valid JSON input ends with exit status 0 and has     *)
(* written an output file that parses to the same value as the input.      *)
C1_RoundTripExitZero ==
  (Done /\ HasArg /\ ValidInput) =>
     /\ status = <<0>>
     /\ Len(fs) = 1
     /\ Loads(fs[1].text).exc = "none"
     /\ Loads(fs[1].text).val = Loads(file.text).val

(* Where a file is written, it parses to the loaded document.              *)
RoundTripWhenWritten ==
  fs # <<>> =>
     /\ Loads(fs[1].text).exc = "none"
     /\ Loads(fs[1].text).val = data
     /\ data = Loads(file.text).val

(* C2: a run without argument ends with status 1, a run on a text that is  *)
(* not JSON ends with status 2; neither writes a file nor runs a check.    *)
C2_UsageAndParseErrors ==
  /\ ~HasArg => NothingChecked /\ (Done => status = <<1>> /\ exc = "none")
  /\ (HasArg /\ file.st = "text" /\ file.text \in BadTexts) =>
        NothingChecked /\ (Done => status = <<2>> /\ exc = "none")

C2_Witness ==
  /\ Done
  /\ HasArg
  /\ file = TextFile(<<P("{"), Word(<<"n","o","t">>), Ws(0, 1), Word(<<"j","s","o","n">>)>>)
  /\ status = <<2>>
  /\ LastTag = "parse_fail"

(* each of the five checks has reported *)
FiveReported ==
  \A c \in {"chapters", "scenarios", "maintainer", "docs", "anti"} :
    \E i \in 1..Len(Steps) : Steps[i] = c

(* C3: once the document has loaded, whatever the five checks find, the    *)
(* run writes the output file and ends with exit status 0; this covers     *)
(* every document of the documented shape.                                 *)
C3_FindingsAreAdvisory ==
  (Done /\ Loaded /\ (WellShaped(data) \/ FiveReported)) =>
     status = <<0>> /\ Len(fs) = 1 /\ exc = "none"

C3_Witness ==
  /\ Done
  /\ HasTag("ch_dup") /\ HasTag("sc_dup") /\ HasTag("maint_placeholder")
  /\ HasTag("docs_warn") /\ HasTag("anti_warn")
  /\ Absent(Field(data, K_selection).v[1][2].v[4], K_id)
  /\ status = <<0>>
  /\ Len(fs) = 1

(* the path without a trailing ".json" *)
WithoutSuffix(path) ==
  IF Len(path) >= Len(DOT_JSON)
     /\ SubSeq(path, Len(path) - Len(DOT_JSON) + 1, Len(path)) = DOT_JSON
  THEN SubSeq(path, 1, Len(path) - Len(DOT_JSON))
  ELSE path

(* C4: the output path is the input path without a trailing ".json", if    *)
(* it has one, followed by ".cleaned.json"; nothing else is removed.       *)
C4_OnlyTrailingSuffix ==
  fs # <<>> =>
     /\ out = WithoutSuffix(argv[2]) \o DOT_CLEANED_JSON
     /\ fs[1].path = out

(* the ids of the map-shaped elements that have one *)
IdsOf(items) ==
  LET recs == SelectSeq(items.v, LAMBDA it : it.k = "obj" /\ HasKey(it, K_id))
  IN [i \in 1..Len(recs) |-> Field(recs[i], K_id)]

RECURSIVE Pick(_, _, _)
(* the elements of ids at the indices in ks, in order *)
Pick(ids, ks, i) ==
  IF i > Len(ids) THEN <<>>
  ELSE (IF i \in ks THEN <<ids[i]>> ELSE <<>>) \o Pick(ids, ks, i + 1)

(* the ids occurring more than once, each at its first occurrence *)
Repeated(items) ==
  LET ids == IdsOf(items)
      ks == {i \in 1..Len(ids) :
               /\ \A j \in 1..(i - 1) : ids[j] # ids[i]
               /\ \E j \in (i + 1)..Len(ids) : ids[j] = ids[i]}
  IN Pick(ids, ks, 1)

(* check_unique_ids has run on chapters and scenarios *)
UniqueIdsActed == chapters.k # "unset" /\ pc # "unique"

(* C5: for every sequence of chapter records check_unique_ids returns      *)
(* the ids that occur more than once, each once, in input order.           *)
C5_ExactlyTheRepeatedIds ==
  (UniqueIdsActed /\ chapters.k = "list" /\ scenarios = EmptyList) =>
     /\ ~(Done /\ LastTag = "summary")
     /\ dup_ch = Repeated(chapters)

(* The same where every id is a scalar.                                    *)
RepeatedScalarIds ==
  (UniqueIdsActed /\ RecordsShaped(chapters) /\ RecordsShaped(scenarios)) =>
     /\ ~(Done /\ LastTag = "summary")
     /\ dup_ch = Repeated(chapters)
     /\ dup_sc = Repeated(scenarios)

(* the contact of a document whose meta part has the documented shape *)
ContactOf(d) ==
  IF Absent(d, K_meta) \/ Absent(Field(d, K_meta), K_maintainer)
     \/ Absent(Field(Field(d, K_meta), K_maintainer), K_contact)
  THEN <<>>
  ELSE Field(Field(Field(d, K_meta), K_maintainer), K_contact).v

Occurs(sub, s) == \E i \in 1..Len(s), j \in 0..Len(s) : SubSeq(s, i, j) = sub

LooksPlaceholder(c) ==
  \/ \A i \in 1..Len(c) : IsSpace(c[i])
  \/ Occurs(EXAMPLE_ORG, c)
  \/ Occurs(REPLACE, c)

(* the maintainer check has run *)
MaintainerActed == (HasTag("sc_ok") \/ HasTag("sc_dup")) /\ pc # "maint"

MaintainerLines ==
  SelectSeq(stdout, LAMBDA l : StepOf(l.tag) = "maintainer")

(* C6: the maintainer check reports "placeholder" exactly when the contact *)
(* (empty if absent) is blank, or contains "example.org" or "replace";     *)
(* otherwise it reports the contact as set, with its value.                *)
C6_PlaceholderExactly ==
  (MaintainerActed /\ data.k = "obj"
   /\ (Absent(data, K_meta) \/ MetaShaped(Field(data, K_meta)))) =>
     /\ Len(MaintainerLines) = 1
     /\ MaintainerLines[1].info = Str(ContactOf(data))
     /\ MaintainerLines[1].tag =
          IF LooksPlaceholder(ContactOf(data)) THEN "maint_placeholder"
          ELSE "maint_set"

C6_Witness ==
  /\ MaintainerActed
  /\ ContactOf(data) = <<"a"," ","r","e","p","l","a","c","e">>
  /\ HasTag("maint_placeholder")

(* the number of maximal runs of non-blank characters *)
TokenCount(s) ==
  Cardinality({i \in 1..Len(s) :
                 ~IsSpace(s[i]) /\ (i = 1 \/ IsSpace(s[i - 1]))})

Verbose(a) ==
  /\ HasKey(a, K_pattern)
  /\ Field(a, K_pattern).k = "str"
  /\ TokenCount(Field(a, K_pattern).v) > 4

(* the (id, pattern) pairs of the verbose entries, in order *)
VerbosePairs(anti) ==
  LET hit == SelectSeq(anti.v, Verbose)
  IN [i \in 1..Len(hit) |->
        <<IF HasKey(hit[i], K_id) THEN Field(hit[i], K_id) ELSE Null,
          Field(hit[i], K_pattern)>>]

(* the anti_abuse check has run *)
AntiActed == (HasTag("docs_ok") \/ HasTag("docs_warn")) /\ pc # "anti"

AntiItems ==
  LET ls == SelectSeq(stdout, LAMBDA l : l.tag = "anti_item")
  IN [i \in 1..Len(ls) |-> ls[i].info]

AntiOf(d) ==
  IF Absent(d, K_safeguards) \/ Absent(Field(d, K_safeguards), K_anti_abuse)
  THEN EmptyList
  ELSE Field(Field(d, K_safeguards), K_anti_abuse)

(* C7: the anti_abuse check records (id, pattern) for exactly the entries  *)
(* whose pattern is a string of more than 4 blank-separated words, in      *)
(* input order; other patterns are skipped, a missing id is recorded null. *)
C7_VerbosePatternsExactly ==
  (AntiActed /\ (Absent(data, K_safeguards)
                 \/ SafeguardsShaped(Field(data, K_safeguards)))) =>
     /\ HasTag("anti_ok") \/ HasTag("anti_warn")
     /\ nl_patterns = VerbosePairs(AntiOf(data))
     /\ AntiItems = nl_patterns
     /\ HasTag("anti_warn") <=> nl_patterns # <<>>

C7_Witness ==
  /\ AntiActed
  /\ Field(AntiOf(data).v[1], K_pattern) = Str(<<"a"," ","a"," "," ","a"," ","a">>)
  /\ nl_patterns = << <<Null, Str(<<"a"," ","a","\t","a"," "," ","a"," ","a">>)>> >>
  /\ HasTag("anti_warn")

SummaryLine == stdout[CHOOSE i \in 1..Len(stdout) : stdout[i].tag = "summary"]

AbsentChapters(d) ==
  Absent(d, K_selection) \/ Absent(Field(d, K_selection), K_chapters)

AbsentAnti(d) ==
  Absent(d, K_safeguards) \/ Absent(Field(d, K_safeguards), K_anti_abuse)

AbsentContact(d) ==
  \/ Absent(d, K_meta)
  \/ Absent(Field(d, K_meta), K_maintainer)
  \/ Absent(Field(Field(d, K_meta), K_maintainer), K_contact)

Reported(step) == \E i \in 1..Len(Steps) : Steps[i] = step

(* C8: in an object document each absent recognised field counts as empty: *)
(* its count is 0, the uniqueness, docs and anti_abuse checks find nothing *)
(* for it, the contact is the empty string, and where the fields present   *)
(* have the documented shape no error is raised.                           *)
C8_AbsentIsEmpty ==
  (Loaded /\ data.k = "obj") =>
     /\ (Done /\ WellShaped(data)) => exc = "none" /\ Steps = FullReport
     /\ (HasTag("summary") /\ AbsentChapters(data)) => SummaryLine.info[1] = 0
     /\ (HasTag("summary") /\ Absent(data, K_scenarios)) =>
           SummaryLine.info[2] = 0
     /\ (Reported("chapters") /\ AbsentChapters(data)) => HasTag("ch_ok")
     /\ (Reported("scenarios") /\ Absent(data, K_scenarios)) => HasTag("sc_ok")
     /\ (MaintainerActed /\ AbsentContact(data)) =>
           /\ Len(MaintainerLines) = 1
           /\ MaintainerLines[1].info = EmptyStr
     /\ (pc \in {"anti", "write", "confirm", "suggest"}
         /\ Absent(data, K_docs)) => HasTag("docs_ok")
     /\ (AntiActed /\ AbsentAnti(data)) => HasTag("anti_ok")

C8_Witness ==
  /\ Done
  /\ data = EmptyObj
  /\ SummaryLine.info = <<0, 0>>
  /\ status = <<0>>

(* C9: every run that loads a document reports each step once, in the      *)
(* fixed order, and writes the file after the five checks and before the   *)
(* confirmation.                                                           *)
C9_FixedOrder ==
  /\ (Done /\ Loaded) => Steps = FullReport /\ Len(fs) = 1
  /\ fs # <<>> => SubSeq(FullReport, 1, 7) = SubSeq(Steps, 1, 7)
  /\ HasTag("written") => fs # <<>>

(* The same for the runs that no exception ends.                           *)
FixedOrderUnlessRaised ==
  /\ (Done /\ Loaded /\ exc = "none") => Steps = FullReport /\ Len(fs) = 1
  /\ Loaded => \E n \in 0..Len(FullReport) : Steps = SubSeq(FullReport, 1, n)
  /\ fs # <<>> => Len(Steps) >= 7
  /\ HasTag("written") => fs # <<>>

(* load_json raises: no file, no permission, bad encoding, bad syntax *)
LoadFails == HasArg /\ (file.st # "text" \/ file.text \in BadTexts)

(* C10: whatever exception load_json raises, the run prints the failure    *)
(* with the error, ends with status 2, runs no check, writes no file.      *)
C10_AnyLoadFailure ==
  LoadFails =>
     /\ NothingChecked
     /\ Done => /\ status = <<2>>
                /\ exc = "none"
                /\ Len(stdout) = 1
                /\ stdout[1].tag = "parse_fail"
                /\ stdout[1].info =
                     CASE file.st = "missing" -> "FileNotFoundError"
                       [] file.st = "denied" -> "PermissionError"
                       [] file.st = "badutf8" -> "UnicodeDecodeError"
                       [] OTHER -> "JSONDecodeError"

C10_Witness ==
  /\ Done
  /\ HasArg
  /\ file = BadUtf8File
  /\ status = <<2>>
  /\ LastTag = "parse_fail"

====
